---- MODULE Spec2Model ----
(***************************************************************************)
(* Timeline store (zustand) of iscoar/timeline, its controller gestures    *)
(* and its localStorage adapter, as a state machine.                       *)
(*                                                                         *)
(* Timestamps are JavaScript numbers holding integer milliseconds; the     *)
(* model keeps them as integers.  Epoch0 stands for the reading of         *)
(* Date.now() when the store is created.                                   *)
(***************************************************************************)
EXTENDS Integers, Sequences, FiniteSets, TLC

VARIABLES items, groups, storedItems, storedGroups, pending, ops, last

vars == <<items, groups, storedItems, storedGroups, pending, ops, last>>

(***************************************************************************)
(* Bounds of the model.                                                    *)
(***************************************************************************)
\* Date.now() at store creation (a small stand-in for a 13-digit reading)
Epoch0 == 1000
\* gesture times are Epoch0 + k half-hours, k in 0..MaxSlot
MaxSlot == 1
\* number of user-level operations of one session
MaxOps == 2
\* Date.now() reads Epoch0 .. Epoch0 + MaxTick during the session
MaxTick == 1
\* the utility collision check is given tasks with boundaries in 0..MaxPoint
MaxPoint == 2
\* snapToMinutes is given the timestamps k * 15 s, k in -MaxSnap..MaxSnap
MaxSnap == 6
\* and the granularities 1..MaxMinutes
MaxMinutes == 2

(***************************************************************************)
(* Constants of the program.                                               *)
(***************************************************************************)
NEW_LANE_ID == "__new_lane__"

HourMs == 60 * 60 * 1000

HalfHourMs == HourMs \div 2

defaultGroups ==
    << [id |-> "lane-1", title |-> "Proyectos"],
       [id |-> "lane-2", title |-> "Tareas"],
       [id |-> "lane-3", title |-> "Objetivos"],
       [id |-> NEW_LANE_ID, title |-> "Arrastra aqui para crear fila"] >>

\* 2.5 * 60 * 60 * 1000 is 5 half-hours
defaultItems ==
    << [id |-> "1", group |-> "lane-1", title |-> "Estudiar",
        start_time |-> Epoch0, end_time |-> Epoch0 + 2 * HourMs,
        color |-> "#3b82f6"],
       [id |-> "2", group |-> "lane-2", title |-> "Descanso",
        start_time |-> Epoch0 + 2 * HourMs,
        end_time |-> Epoch0 + 5 * HalfHourMs,
        color |-> "#10b981"],
       [id |-> "3", group |-> "lane-3", title |-> "Ejercicio",
        start_time |-> Epoch0 + 5 * HalfHourMs,
        end_time |-> Epoch0 + 3 * HourMs,
        color |-> "#f59e0b"] >>

(***************************************************************************)
(* Inputs of the operations.                                               *)
(***************************************************************************)
Times == {Epoch0 + k * HalfHourMs : k \in 0..MaxSlot}

\* ids a caller may name: those of the tasks in the store and an unknown one
ItemIdInputs == {items[i].id : i \in 1..Len(items)} \cup {"no-such-item"}

\* lane ids a caller may name: the lanes of the store (placeholder
\* included) and an id that is no lane's
GroupIdInputs == {groups[i].id : i \in 1..Len(groups)} \cup {"no-such-lane"}

\* ids a gesture names: the timeline lets the user drag the tasks it shows
GestureItemIds == {items[i].id : i \in 1..Len(items)}

\* the time a gesture names in a session that also calls the store
\* operations directly; the gestures alone are given every time of Times
GestureTimes == {Epoch0}

Edges == {"left", "right"}

\* what Date.now() may read at the time of a call
ClockReadings == Epoch0..(Epoch0 + MaxTick)

(***************************************************************************)
(* localStorageService: JSON.stringify / JSON.parse of the two             *)
(* collections.  A serialized record is the tuple of its field values in   *)
(* the order of the record shape; a key that was never written is absent.  *)
(* The form of a key's text tells what JSON.parse makes of it: "array" a   *)
(* serialized collection, "null" the JSON text null, "garbage" a text that *)
(* JSON.parse throws on.                                                    *)
(***************************************************************************)
Absent == [present |-> FALSE, form |-> "none", text |-> << >>]

\* a key whose text is no serialized collection
Corrupt(form) == [present |-> TRUE, form |-> form, text |-> << >>]

CorruptForms == {"garbage", "null"}

stringifyItem(it) ==
    <<it.id, it.group, it.title, it.start_time, it.end_time, it.color>>

parseItem(t) ==
    [id |-> t[1], group |-> t[2], title |-> t[3],
     start_time |-> t[4], end_time |-> t[5], color |-> t[6]]

stringifyGroup(g) == <<g.id, g.title>>

parseGroup(t) == [id |-> t[1], title |-> t[2]]

stringifyItems(its) == [i \in 1..Len(its) |-> stringifyItem(its[i])]

stringifyGroups(gs) == [i \in 1..Len(gs) |-> stringifyGroup(gs[i])]

\* loadItems returns null: JSON.parse of the text null succeeds, nothing is
\* caught, and the value is returned as it is
loadItemsIsNull(stored) == stored.present /\ stored.form = "null"

\* loadItems: stored ? JSON.parse(stored) : [], and [] from the catch when
\* JSON.parse throws; the collection it returns when it returns one
loadItems(stored) ==
    IF stored.present /\ stored.form = "array"
    THEN [i \in 1..Len(stored.text) |-> parseItem(stored.text[i])]
    ELSE << >>

\* a loadGroups that takes a stored empty list for no stored lanes
loadGroupsEmptyAsNull(stored) ==
    IF stored.present /\ stored.form = "array" /\ Len(stored.text) > 0
    THEN [isNull |-> FALSE,
          val |-> [i \in 1..Len(stored.text) |-> parseGroup(stored.text[i])]]
    ELSE [isNull |-> TRUE, val |-> << >>]

\* loadGroups: stored ? JSON.parse(stored) : null, and null from the catch
\* when JSON.parse throws or when the text is null
loadGroups(stored) ==
    IF stored.present /\ stored.form = "array"
    THEN [isNull |-> FALSE,
          val |-> [i \in 1..Len(stored.text) |-> parseGroup(stored.text[i])]]
    ELSE [isNull |-> TRUE, val |-> << >>]

\* the key after localStorage.setItem(key, JSON.stringify(collection))
\* a write that leaves the key empty of tasks
WrittenItemsBlank(its) == [present |-> TRUE, form |-> "array", text |-> << >>]

WrittenItems(its) ==
    [present |-> TRUE, form |-> "array", text |-> stringifyItems(its)]

WrittenGroups(gs) ==
    [present |-> TRUE, form |-> "array", text |-> stringifyGroups(gs)]

\* store creation: storedItems.length > 0 ? storedItems : defaultItems
InitialItems(stored) ==
    IF Len(loadItems(stored)) > 0 THEN loadItems(stored) ELSE defaultItems

\* store creation: storedGroups || defaultGroups
InitialGroups(stored) ==
    IF loadGroups(stored).isNull THEN defaultGroups ELSE loadGroups(stored).val

\* a reload that adds the stored tasks to those in memory
LoadedItemsAppended(mem, stored) == mem \o loadItems(stored)

\* loadFromStorage: if (storedItems.length > 0) set({ items: storedItems })
LoadedItems(mem, stored) ==
    IF Len(loadItems(stored)) > 0 THEN loadItems(stored) ELSE mem

\* loadFromStorage: if (storedGroups) set({ groups: storedGroups })
LoadedGroups(mem, stored) ==
    IF loadGroups(stored).isNull THEN mem ELSE loadGroups(stored).val

(***************************************************************************)
(* Pure parts of the store operations.                                     *)
(***************************************************************************)
\* state.items.find((i) => i.id === itemId): index of the first match, 0 if none
FindItem(its, itemId) ==
    IF \E i \in 1..Len(its) : its[i].id = itemId
    THEN CHOOSE i \in 1..Len(its) :
            /\ its[i].id = itemId
            /\ \A j \in 1..(i - 1) : its[j].id # itemId
    ELSE 0

\* a collision test that only asks whether the new start falls inside a task
hasCollisionStartInside(its, itemId, groupId, newStart, newEnd) ==
    \E i \in 1..Len(its) :
        /\ its[i].id # itemId
        /\ its[i].group = groupId
        /\ its[i].start_time <= newStart
        /\ newStart < its[i].end_time

hasCollision(its, itemId, groupId, newStart, newEnd) ==
    \E i \in 1..Len(its) :
        /\ its[i].id # itemId
        /\ its[i].group = groupId
        /\ newStart < its[i].end_time
        /\ newEnd > its[i].start_time

\* a move that keeps the old end_time
MoveNewEndKept(its, itemId, newStart) ==
    its[FindItem(its, itemId)].end_time

\* newEnd of moveItemToGroup: newStart + (item.end_time - item.start_time)
MoveNewEnd(its, itemId, newStart) ==
    LET item == its[FindItem(its, itemId)]
    IN  newStart + (item.end_time - item.start_time)

\* a move without the collision guard
MoveAcceptedUnchecked(its, itemId, newGroupId, newStart) ==
    /\ newGroupId # NEW_LANE_ID
    /\ FindItem(its, itemId) # 0

\* a move without the placeholder guard
MoveAcceptedIntoPlaceholder(its, itemId, newGroupId, newStart) ==
    /\ FindItem(its, itemId) # 0
    /\ ~hasCollision(its, itemId, newGroupId, newStart,
                     MoveNewEnd(its, itemId, newStart))

MoveAccepted(its, itemId, newGroupId, newStart) ==
    /\ newGroupId # NEW_LANE_ID
    /\ FindItem(its, itemId) # 0
    /\ ~hasCollision(its, itemId, newGroupId, newStart,
                     MoveNewEnd(its, itemId, newStart))

MovedItems(its, itemId, newGroupId, newStart) ==
    [i \in 1..Len(its) |->
        IF its[i].id = itemId
        THEN [its[i] EXCEPT !.group = newGroupId,
                            !.start_time = newStart,
                            !.end_time = MoveNewEnd(its, itemId, newStart)]
        ELSE its[i]]

\* a resize whose edges are confused on the start side
ResizeNewStartAnyEdge(its, itemId, newTime, edge) ==
    newTime

ResizeNewStart(its, itemId, newTime, edge) ==
    IF edge = "left" THEN newTime ELSE its[FindItem(its, itemId)].start_time

ResizeNewEnd(its, itemId, newTime, edge) ==
    IF edge = "left" THEN its[FindItem(its, itemId)].end_time ELSE newTime

\* a resize without the collision guard
ResizeAcceptedUnchecked(its, itemId, newTime, edge) ==
    FindItem(its, itemId) # 0

ResizeAccepted(its, itemId, newTime, edge) ==
    /\ FindItem(its, itemId) # 0
    /\ ~hasCollision(its, itemId, its[FindItem(its, itemId)].group,
                     ResizeNewStart(its, itemId, newTime, edge),
                     ResizeNewEnd(its, itemId, newTime, edge))

\* a resize that leaves a task as it was when the new boundary would make
\* start_time >= end_time
ResizedItemsOrdered(its, itemId, newTime, edge) ==
    [i \in 1..Len(its) |->
        IF /\ its[i].id = itemId
           /\ ResizeNewStart(its, itemId, newTime, edge)
                < ResizeNewEnd(its, itemId, newTime, edge)
        THEN [its[i] EXCEPT
                !.start_time = ResizeNewStart(its, itemId, newTime, edge),
                !.end_time = ResizeNewEnd(its, itemId, newTime, edge)]
        ELSE its[i]]

ResizedItems(its, itemId, newTime, edge) ==
    [i \in 1..Len(its) |->
        IF its[i].id = itemId
        THEN [its[i] EXCEPT
                !.start_time = ResizeNewStart(its, itemId, newTime, edge),
                !.end_time = ResizeNewEnd(its, itemId, newTime, edge)]
        ELSE its[i]]

\* `group-${Date.now()}`
NewGroupId(clock) == "group-" \o ToString(clock)

IsPlaceholder(g) == g.id = NEW_LANE_ID

IsRealLane(g) == g.id # NEW_LANE_ID

\* createGroup without the sort
SortOmitted(gs) == gs

\* .sort((a, b) => a.id === NEW_LANE_ID ? 1 : b.id === NEW_LANE_ID ? -1 : 0):
\* the sort is stable, the placeholder compares greater than every lane
SortPlaceholderLast(gs) ==
    SelectSeq(gs, IsRealLane) \o SelectSeq(gs, IsPlaceholder)

\* createGroup putting the new lane in front of the others
GroupsAfterCreatePrepended(gs, newId, title) ==
    SortPlaceholderLast(<<[id |-> newId, title |-> title]>> \o gs)

GroupsAfterCreate(gs, newId, title) ==
    SortPlaceholderLast(Append(gs, [id |-> newId, title |-> title]))


(***************************************************************************)
(* The record of the call made last: the operation, its arguments (NoId,   *)
(* NoTime, NoIndex where it has none), whether it took effect, what it     *)
(* returned (for a gesture: the id createGroup returned to it, "" if it    *)
(* did not call createGroup), whether an exception left it, and the store  *)
(* and the storage as the call found them.                                 *)
(***************************************************************************)
\* the value a call of a function declared "=> void" evaluates to
Undefined == "undefined"

NoId == ""

NoTime == 0

NoIndex == 0 - 1

Call(op, id, gid, title, t, t2, edge, k) ==
    [op |-> op, id |-> id, group |-> gid, title |-> title, time |-> t,
     time2 |-> t2, edge |-> edge, index |-> k]

Done(call, ok, ret) ==
    [call |-> call, ok |-> ok, ret |-> ret, threw |-> FALSE,
     items0 |-> items, groups0 |-> groups, pending0 |-> pending,
     storedItems0 |-> storedItems, storedGroups0 |-> storedGroups]

\* the record of a call that an exception left
Thrown(call) == [Done(call, FALSE, "") EXCEPT !.threw = TRUE]

(***************************************************************************)
(* Initial state: the store is created on empty storage, so the defaults   *)
(* are taken (storedGroups || defaultGroups, storedItems.length > 0 ?).    *)
(***************************************************************************)
Init ==
    /\ storedItems = Absent
    /\ storedGroups = Absent
    /\ items = InitialItems(storedItems)
    /\ groups = InitialGroups(storedGroups)
    /\ pending = 0
    /\ ops = 0
    /\ last = [call |-> Call("create", NoId, NoId, "", NoTime, NoTime, "", NoIndex),
               ok |-> TRUE, ret |-> "", threw |-> FALSE,
               items0 |-> << >>, groups0 |-> << >>, pending0 |-> 0,
               storedItems0 |-> Absent, storedGroups0 |-> Absent]

(***************************************************************************)
(* Store operations.                                                       *)
(***************************************************************************)
moveItemToGroup(itemId, newGroupId, newStart) ==
    /\ ops < MaxOps
    /\ IF MoveAccepted(items, itemId, newGroupId, newStart)
       THEN /\ items' = MovedItems(items, itemId, newGroupId, newStart)
            /\ pending' = pending + 1
       ELSE /\ items' = items
            /\ pending' = pending
    /\ last' = Done(Call("moveItemToGroup", itemId, newGroupId, "", newStart,
                         NoTime, "", NoIndex),
                    MoveAccepted(items, itemId, newGroupId, newStart),
                    Undefined)
    /\ ops' = ops + 1
    /\ UNCHANGED <<groups, storedItems, storedGroups>>

resizeItem(itemId, newTime, edge) ==
    /\ ops < MaxOps
    /\ IF ResizeAccepted(items, itemId, newTime, edge)
       THEN /\ items' = ResizedItems(items, itemId, newTime, edge)
            /\ pending' = pending + 1
       ELSE /\ items' = items
            /\ pending' = pending
    /\ last' = Done(Call("resizeItem", itemId, NoId, "", newTime, NoTime,
                         edge, NoIndex),
                    ResizeAccepted(items, itemId, newTime, edge), Undefined)
    /\ ops' = ops + 1
    /\ UNCHANGED <<groups, storedItems, storedGroups>>

\* clock is what Date.now() reads during the call
createGroup(title, clock) ==
    /\ ops < MaxOps
    /\ groups' = GroupsAfterCreate(groups, NewGroupId(clock), title)
    /\ pending' = pending + 1
    /\ last' = Done(Call("createGroup", NoId, NoId, title, clock, NoTime, "",
                         NoIndex),
                    TRUE, NewGroupId(clock))
    /\ ops' = ops + 1
    /\ UNCHANGED <<items, storedItems, storedGroups>>

updateGroup(groupId, newTitle) ==
    /\ ops < MaxOps
    /\ IF groupId = NEW_LANE_ID
       THEN /\ groups' = groups
            /\ pending' = pending
       ELSE /\ groups' = [i \in 1..Len(groups) |->
                            IF groups[i].id = groupId
                            THEN [groups[i] EXCEPT !.title = newTitle]
                            ELSE groups[i]]
            /\ pending' = pending + 1
    /\ last' = Done(Call("updateGroup", NoId, groupId, newTitle, NoTime,
                         NoTime, "", NoIndex),
                    groupId # NEW_LANE_ID, "")
    /\ ops' = ops + 1
    /\ UNCHANGED <<items, storedItems, storedGroups>>

\* { ...item, ...partial }
MergeItem(item, partial) ==
    [f \in DOMAIN item |-> IF f \in DOMAIN partial THEN partial[f] ELSE item[f]]

\* updateItem(id, partial): no persist is scheduled
updateItem(id, partial) ==
    /\ ops < MaxOps
    /\ items' = [i \in 1..Len(items) |->
                    IF items[i].id = id THEN MergeItem(items[i], partial)
                    ELSE items[i]]
    /\ last' = Done(Call("updateItem", id, NoId, "", NoTime, NoTime, "",
                         NoIndex),
                    TRUE, "")
    /\ ops' = ops + 1
    /\ UNCHANGED <<groups, storedItems, storedGroups, pending>>

\* setItems(items): set({ items }) and one deferred saveToStorage
setItems(newItems) ==
    /\ ops < MaxOps
    /\ items' = newItems
    /\ pending' = pending + 1
    /\ last' = Done(Call("setItems", NoId, NoId, "", NoTime, NoTime, "",
                         NoIndex),
                    TRUE, "")
    /\ ops' = ops + 1
    /\ UNCHANGED <<groups, storedItems, storedGroups>>

\* storedItems.length is read first: when loadItems returned null the
\* TypeError leaves loadFromStorage before anything is set
loadFromStorage ==
    /\ ops < MaxOps
    /\ IF loadItemsIsNull(storedItems)
       THEN /\ UNCHANGED <<items, groups>>
            /\ last' = Thrown(Call("loadFromStorage", NoId, NoId, "", NoTime,
                                   NoTime, "", NoIndex))
       ELSE /\ items' = LoadedItems(items, storedItems)
            /\ groups' = LoadedGroups(groups, storedGroups)
            /\ last' = Done(Call("loadFromStorage", NoId, NoId, "", NoTime,
                                 NoTime, "", NoIndex),
                            TRUE, "")
    /\ ops' = ops + 1
    /\ UNCHANGED <<storedItems, storedGroups, pending>>

\* a persist that is scheduled again when one of its writes failed
saveToStorageRetried(itemsWritten, groupsWritten) ==
    /\ pending > 0
    /\ pending' = (IF itemsWritten /\ groupsWritten THEN pending - 1
                   ELSE pending)
    /\ storedItems' = (IF itemsWritten THEN WrittenItems(items)
                       ELSE storedItems)
    /\ storedGroups' = (IF groupsWritten THEN WrittenGroups(groups)
                        ELSE storedGroups)
    /\ last' = Done(Call("saveToStorage", NoId, NoId, "", NoTime, NoTime, "",
                         NoIndex),
                    itemsWritten /\ groupsWritten, "")
    /\ UNCHANGED <<items, groups, ops>>

\* One setTimeout(() => get().saveToStorage(), 0) callback runs: saveItems
\* and saveGroups each write the current collection, or throw inside
\* localStorage.setItem (caught and logged) and leave the key as it was.
saveToStorage(itemsWritten, groupsWritten) ==
    /\ pending > 0
    /\ pending' = pending - 1
    /\ storedItems' = (IF itemsWritten THEN WrittenItems(items)
                       ELSE storedItems)
    /\ storedGroups' = (IF groupsWritten THEN WrittenGroups(groups)
                        ELSE storedGroups)
    /\ last' = Done(Call("saveToStorage", NoId, NoId, "", NoTime, NoTime, "",
                         NoIndex),
                    itemsWritten /\ groupsWritten, "")
    /\ UNCHANGED <<items, groups, ops>>

\* The page is loaded again: the store is created anew from storage and the
\* timers of the page that was left are gone.
\* When loadItems returned null, storedItems.length throws inside the
\* create callback: no store comes to be, the page has no tasks and no lanes.
createStore ==
    /\ ops < MaxOps
    /\ IF loadItemsIsNull(storedItems)
       THEN /\ items' = << >>
            /\ groups' = << >>
            /\ last' = Thrown(Call("create", NoId, NoId, "", NoTime, NoTime, "",
                                   NoIndex))
       ELSE /\ items' = InitialItems(storedItems)
            /\ groups' = InitialGroups(storedGroups)
            /\ last' = Done(Call("create", NoId, NoId, "", NoTime, NoTime, "",
                                 NoIndex),
                            TRUE, "")
    /\ pending' = 0
    /\ ops' = ops + 1
    /\ UNCHANGED <<storedItems, storedGroups>>

\* Something other than the store (another page of the origin, the user)
\* leaves under one of the two keys a text that is no serialized collection.
storageOverwritten(key, form) ==
    /\ ops < MaxOps
    /\ storedItems' = (IF key = "timeline-items" THEN Corrupt(form)
                       ELSE storedItems)
    /\ storedGroups' = (IF key = "timeline-groups" THEN Corrupt(form)
                        ELSE storedGroups)
    /\ last' = Done(Call("storageOverwritten", NoId, NoId, key, NoTime, NoTime,
                         "", NoIndex),
                    TRUE, "")
    /\ ops' = ops + 1
    /\ UNCHANGED <<items, groups, pending>>

(***************************************************************************)
(* Controller (useTimelineController) and the add-task form (useTask).     *)
(***************************************************************************)
\* handleItemMove(itemId, dragTime, newGroupOrder); newGroupOrder is the
\* 0-based index into groups, clock what Date.now() reads in createGroup
handleItemMove(itemId, dragTime, newGroupOrder, clock) ==
    /\ ops < MaxOps
    /\ IF newGroupOrder >= Len(groups)
       THEN /\ UNCHANGED <<items, groups, pending>>
            /\ last' = Done(Call("handleItemMove", itemId, NoId, "", dragTime,
                                 NoTime, "", newGroupOrder),
                            FALSE, "")
       ELSE LET targetGroup == groups[newGroupOrder + 1]
                viaNewLane == targetGroup.id = NEW_LANE_ID
                newGroupId == IF viaNewLane THEN NewGroupId(clock)
                              ELSE targetGroup.id
                accepted == MoveAccepted(items, itemId, newGroupId, dragTime)
            IN  /\ groups' = (IF viaNewLane
                              THEN GroupsAfterCreate(groups, newGroupId,
                                        "lane-" \o ToString(Len(groups)))
                              ELSE groups)
                /\ items' = (IF accepted
                             THEN MovedItems(items, itemId, newGroupId, dragTime)
                             ELSE items)
                /\ pending' = pending + (IF viaNewLane THEN 1 ELSE 0)
                                      + (IF accepted THEN 1 ELSE 0)
                /\ last' = Done(Call("handleItemMove", itemId, newGroupId, "",
                                     dragTime, NoTime, "", newGroupOrder),
                                accepted,
                                IF viaNewLane THEN newGroupId ELSE "")
    /\ ops' = ops + 1
    /\ UNCHANGED <<storedItems, storedGroups>>

handleItemResize(itemId, newTime, edge) ==
    /\ ops < MaxOps
    /\ IF ResizeAccepted(items, itemId, newTime, edge)
       THEN /\ items' = ResizedItems(items, itemId, newTime, edge)
            /\ pending' = pending + 1
       ELSE /\ items' = items
            /\ pending' = pending
    /\ last' = Done(Call("handleItemResize", itemId, NoId, "", newTime, NoTime,
                         edge, NoIndex),
                    ResizeAccepted(items, itemId, newTime, edge), "")
    /\ ops' = ops + 1
    /\ UNCHANGED <<groups, storedItems, storedGroups>>

\* task-timeline onItemMove: const newGroupId = groups[newGroupOrder].id
\* reads a property of undefined when the index is outside groups and the
\* TypeError leaves the callback; otherwise handleItemMove is called
onItemMove(itemId, dragTime, newGroupOrder, clock) ==
    IF newGroupOrder >= Len(groups)
    THEN /\ ops < MaxOps
         /\ last' = Thrown(Call("onItemMove", itemId, NoId, "", dragTime,
                                NoTime, "", newGroupOrder))
         /\ ops' = ops + 1
         /\ UNCHANGED <<items, groups, pending, storedItems, storedGroups>>
    ELSE handleItemMove(itemId, dragTime, newGroupOrder, clock)

\* task-timeline onItemResize: handleItemResize(String(itemId), newTime, edge)
onItemResize(itemId, newTime, edge) == handleItemResize(itemId, newTime, edge)

\* an empty datetime field of the form
EmptyField == 0 - 1

\* useTask.addTask: does the form produce a task
AddTaskProduces(newTaskName, startTime, endTime) ==
    /\ newTaskName # ""
    /\ startTime # EmptyField
    /\ endTime # EmptyField
    /\ ~(endTime < startTime)

addTask(newTaskName, startTime, endTime, clock) ==
    [id |-> ToString(clock), group |-> "lane-1", title |-> newTaskName,
     start_time |-> startTime, end_time |-> endTime, color |-> "#3b82f6"]

\* home.handleAddTask: addTask(), then addItem(newItem) when a task came back;
\* addItem is setItems([...items, item]); clock is what Date.now() reads
handleAddTask(newTaskName, startTime, endTime, clock) ==
    /\ ops < MaxOps
    /\ IF AddTaskProduces(newTaskName, startTime, endTime)
       THEN /\ items' = Append(items,
                               addTask(newTaskName, startTime, endTime, clock))
            /\ pending' = pending + 1
       ELSE UNCHANGED <<items, pending>>
    /\ last' = Done(Call("addItem",
                         IF AddTaskProduces(newTaskName, startTime, endTime)
                         THEN ToString(clock) ELSE NoId,
                         NoId, newTaskName, startTime, endTime, "", NoIndex),
                    AddTaskProduces(newTaskName, startTime, endTime), "")
    /\ ops' = ops + 1
    /\ UNCHANGED <<groups, storedItems, storedGroups>>

\* partial arguments of updateItem
Partials ==
    {[title |-> "Editado"], [group |-> "lane-1", start_time |-> Epoch0]}

\* what the add-task form holds when it is submitted: <<name, start, end>>
FormInputs ==
    {<<"Tarea", s, e>> : s \in Times, e \in Times}
        \cup {<<"", Epoch0, Epoch0 + HalfHourMs>>,
              <<"Tarea", EmptyField, Epoch0 + HalfHourMs>>,
              <<"Tarea", Epoch0, EmptyField>>}

\* a session is MaxOps calls long; every operation has this guard, Next
\* states it before it draws the arguments
SessionOpen == ops < MaxOps

\* Date.now() is read by handleItemMove only inside createGroup, that is
\* when the drop is on the placeholder
MoveReadings(k) ==
    IF k < Len(groups) /\ groups[k + 1].id = NEW_LANE_ID
    THEN ClockReadings ELSE {Epoch0}

\* Date.now() is read by addTask only when it builds the task
FormReadings(f) ==
    IF AddTaskProduces(f[1], f[2], f[3]) THEN ClockReadings ELSE {Epoch0}

Next ==
    \/ SessionOpen /\ \E id \in ItemIdInputs, g \in GroupIdInputs, t \in Times :
            moveItemToGroup(id, g, t)
    \/ SessionOpen /\ \E id \in ItemIdInputs, t \in Times, e \in Edges :
            resizeItem(id, t, e)
    \/ SessionOpen /\ \E c \in ClockReadings : createGroup("Nuevo carril", c)
    \/ SessionOpen /\ \E g \in GroupIdInputs : updateGroup(g, "Renombrado")
    \/ SessionOpen /\ \E id \in ItemIdInputs, p \in Partials : updateItem(id, p)
    \/ SessionOpen /\ setItems(<< >>)
    \/ SessionOpen /\ \E id \in GestureItemIds, t \in GestureTimes,
                          k \in 0..Len(groups) :
            \E c \in MoveReadings(k) : handleItemMove(id, t, k, c)
    \/ SessionOpen /\ \E id \in GestureItemIds, t \in GestureTimes, e \in Edges :
            handleItemResize(id, t, e)
    \/ SessionOpen /\ \E f \in FormInputs :
            \E c \in FormReadings(f) : handleAddTask(f[1], f[2], f[3], c)

\* what storage may hold when a session starts: nothing, an empty
\* collection, or what an earlier session wrote: one task, or two tasks
\* that the add-task form produced within one millisecond
StoredItemsInputs ==
    {Absent, WrittenItems(<< >>),
     WrittenItems(<< [id |-> "7", group |-> "lane-1", title |-> "Guardada",
                      start_time |-> Epoch0,
                      end_time |-> Epoch0 + HalfHourMs,
                      color |-> "#3b82f6"] >>),
     WrittenItems(<< addTask("Tarea", Epoch0, Epoch0 + HalfHourMs, Epoch0),
                     addTask("Tarea", Epoch0 + HourMs, Epoch0 + 2 * HourMs,
                             Epoch0) >>)}

StoredGroupsInputs ==
    {Absent, WrittenGroups(<< >>),
     WrittenGroups(<< [id |-> "lane-1", title |-> "Guardado"],
                      [id |-> NEW_LANE_ID,
                       title |-> "Arrastra aqui para crear fila"] >>)}

\* the store is created on storage that holds any of these
InitStorage ==
    /\ storedItems \in StoredItemsInputs
    /\ storedGroups \in StoredGroupsInputs
    /\ items = InitialItems(storedItems)
    /\ groups = InitialGroups(storedGroups)
    /\ pending = 0
    /\ ops = 0
    /\ last = [call |-> Call("create", NoId, NoId, "", NoTime, NoTime, "", NoIndex),
               ok |-> TRUE, ret |-> "", threw |-> FALSE,
               items0 |-> << >>, groups0 |-> << >>, pending0 |-> 0,
               storedItems0 |-> Absent, storedGroups0 |-> Absent]

\* lanes the store operations name in the session with storage: those of
\* the store's lanes that are lane-2, the placeholder or the created lane
StorageLaneInputs ==
    {groups[i].id : i \in 1..Len(groups)}
        \cap {"lane-2", NEW_LANE_ID, NewGroupId(Epoch0)}

\* the session with its storage: store operations, the deferred persists
\* (each write succeeds or fails), reloads and new sessions
NextStorage ==
    \/ SessionOpen /\ \E id \in ItemIdInputs, g \in StorageLaneInputs :
            moveItemToGroup(id, g, Epoch0)
    \/ SessionOpen /\ \E id \in ItemIdInputs :
            resizeItem(id, Epoch0 + HalfHourMs, "right")
    \/ SessionOpen /\ createGroup("Nuevo carril", Epoch0)
    \/ SessionOpen /\ \E g \in StorageLaneInputs : updateGroup(g, "Renombrado")
    \/ SessionOpen /\ \E id \in ItemIdInputs : updateItem(id, [title |-> "Editado"])
    \/ SessionOpen /\ setItems(<< >>)
    \/ SessionOpen /\ loadFromStorage
    \/ SessionOpen /\ createStore
    \/ \E wi \in BOOLEAN, wg \in BOOLEAN : saveToStorage(wi, wg)

\* the gestures as the timeline component delivers them
NextView ==
    \/ SessionOpen /\ \E id \in GestureItemIds, t \in Times, k \in 0..Len(groups) :
            \E c \in MoveReadings(k) : onItemMove(id, t, k, c)
    \/ SessionOpen /\ \E id \in GestureItemIds, t \in Times, e \in Edges :
            onItemResize(id, t, e)

(***************************************************************************)
(* The utilities exported next to the storage adapter.                     *)
(***************************************************************************)
\* a utility check in which intervals that touch collide
hasCollisionTouching(moving, its) ==
    \E i \in 1..Len(its) :
        /\ ~(its[i].id = moving.id \/ its[i].group # moving.group)
        /\ ~(\/ moving.end_time < its[i].start_time
              \/ moving.start_time > its[i].end_time)

\* hasCollision(moving, items) of localStorageService.ts: items.some(...)
hasCollisionUtility(moving, its) ==
    \E i \in 1..Len(its) :
        /\ ~(its[i].id = moving.id \/ its[i].group # moving.group)
        /\ ~(\/ moving.end_time <= its[i].start_time
              \/ moving.start_time >= its[i].end_time)

\* Math.round(n / d) for integers n and d > 0: floor(n / d + 1/2)
MathRound(n, d) == (2 * n + d) \div (2 * d)

\* snapToMinutes: ms = minutes * 60 * 1000; Math.round(timestamp / ms) * ms
snapToMinutes(timestamp, minutes) ==
    LET ms == minutes * 60 * 1000
    IN  MathRound(timestamp, ms) * ms

\* String(b) of a boolean
BoolText(b) == IF b THEN "true" ELSE "false"

\* tasks the collision checks are given
UtilTasks ==
    {[id |-> i, group |-> g, title |-> "Tarea", start_time |-> a,
      end_time |-> b, color |-> "#3b82f6"] :
        i \in {"a", "b"}, g \in {"g1", "g2"},
        a \in 0..MaxPoint, b \in 0..MaxPoint}

\* the collections the checks are given: none, one or two tasks
UtilCollections ==
    {<< >>} \cup {<<x>> : x \in UtilTasks}
            \cup {<<x, y>> : x \in UtilTasks, y \in UtilTasks}

QuarterMinuteMs == 15 * 1000

SnapTimestamps == {k * QuarterMinuteMs : k \in (0 - MaxSnap)..MaxSnap}

\* the collection is any of UtilCollections; no lanes and no storage matter
InitUtil ==
    /\ items \in UtilCollections
    /\ groups = << >>
    /\ storedItems = Absent
    /\ storedGroups = Absent
    /\ pending = 0
    /\ ops = 0
    /\ last = [call |-> Call("create", NoId, NoId, "", NoTime, NoTime, "", NoIndex),
               ok |-> TRUE, ret |-> "", threw |-> FALSE,
               items0 |-> << >>, groups0 |-> << >>, pending0 |-> 0,
               storedItems0 |-> Absent, storedGroups0 |-> Absent]

\* both collision checks are asked about the candidate moving: ok is what
\* the store's check answers, ret what the utility answers
collisionChecked(moving) ==
    /\ ops = 0
    /\ last' = Done(Call("hasCollision", moving.id, moving.group, "",
                         moving.start_time, moving.end_time, "", NoIndex),
                    hasCollision(items, moving.id, moving.group,
                                 moving.start_time, moving.end_time),
                    BoolText(hasCollisionUtility(moving, items)))
    /\ ops' = ops + 1
    /\ UNCHANGED <<items, groups, storedItems, storedGroups, pending>>

\* snapToMinutes(timestamp, minutes) is called; ret is the number returned
snapped(timestamp, minutes) ==
    /\ ops = 0
    /\ items = << >>
    /\ last' = Done(Call("snapToMinutes", NoId, NoId, "", timestamp, NoTime, "",
                         minutes),
                    TRUE, ToString(snapToMinutes(timestamp, minutes)))
    /\ ops' = ops + 1
    /\ UNCHANGED <<items, groups, storedItems, storedGroups, pending>>

NextUtil ==
    \/ \E moving \in UtilTasks : collisionChecked(moving)
    \/ \E t \in SnapTimestamps, m \in 1..MaxMinutes : snapped(t, m)

STORAGE_KEYS == {"timeline-items", "timeline-groups"}

\* startup on storage that may hold corrupt data
NextStartup ==
    \/ SessionOpen /\ \E key \in STORAGE_KEYS, form \in CorruptForms :
            storageOverwritten(key, form)
    \/ SessionOpen /\ createStore
    \/ SessionOpen /\ loadFromStorage

Spec == Init /\ [][Next]_vars

SpecStartup == InitStorage /\ [][NextStartup]_vars

SpecUtil == InitUtil /\ [][NextUtil]_vars

SpecView == Init /\ [][NextView]_vars

SpecStorage == InitStorage /\ [][NextStorage]_vars

(***************************************************************************)
(* Properties.  They are stated on the record of the last call: the store  *)
(* as the call found it (items0, groups0, pending0), the arguments, and    *)
(* the store as the call left it (items, groups, pending).                 *)
(***************************************************************************)
\* overlap of two half-open intervals: s1 < e2 and s2 < e1
Overlap(a, b) == a.start_time < b.end_time /\ b.start_time < a.end_time

NoOverlap(its) ==
    \A i \in 1..Len(its), j \in 1..Len(its) :
        (i # j /\ its[i].group = its[j].group) => ~Overlap(its[i], its[j])

DistinctIds(its) ==
    \A i \in 1..Len(its), j \in 1..Len(its) :
        i # j => its[i].id # its[j].id

Called(op) == last.call.op = op

\* index in items0 of the task the call named: the first with that id
Named == FindItem(last.items0, last.call.id)

\* before the call some task with another id than the named one lay in
\* lane g and overlapped [s, e)
Blocked(g, s, e) ==
    \E i \in 1..Len(last.items0) :
        /\ last.items0[i].id # last.call.id
        /\ last.items0[i].group = g
        /\ s < last.items0[i].end_time
        /\ last.items0[i].start_time < e

SameLanePair(its) ==
    \E i \in 1..Len(its), j \in 1..Len(its) :
        i # j /\ its[i].group = its[j].group

\* C1: from a state with pairwise distinct task ids and no overlap among
\* tasks of one lane, a moveItemToGroup or resizeItem call with any
\* arguments leaves the ids distinct and no two distinct tasks of one lane
\* overlapping, so the same holds after every call of a sequence of them.
C1_MoveResizeKeepNoOverlap ==
    (/\ Called("moveItemToGroup") \/ Called("resizeItem")
     /\ DistinctIds(last.items0)
     /\ NoOverlap(last.items0))
    => (DistinctIds(items) /\ NoOverlap(items))

\* C1 witness: an accepted move or resize has put two tasks in one lane
C1_Witness ==
    /\ Called("moveItemToGroup") \/ Called("resizeItem")
    /\ last.ok
    /\ DistinctIds(last.items0)
    /\ NoOverlap(last.items0)
    /\ ~SameLanePair(last.items0)
    /\ SameLanePair(items)

\* C2: in every reachable state no two distinct tasks of one lane overlap.
C2_NoOverlapEverywhere == NoOverlap(items)

\* duration of the named task before the call
NamedDuration ==
    last.items0[Named].end_time - last.items0[Named].start_time

\* the cases in which a moveItemToGroup call is to be rejected
MoveRejectCase ==
    \/ last.call.group = NEW_LANE_ID
    \/ Named = 0
    \/ Blocked(last.call.group, last.call.time, last.call.time + NamedDuration)

\* the call took effect: it reports success and scheduled a persist
Applied == last.ok /\ pending = last.pending0 + 1

\* the call left tasks, lanes and the scheduled persists as they were
NothingChanged ==
    /\ items = last.items0
    /\ groups = last.groups0
    /\ pending = last.pending0

\* the call named the task's own lane and start_time
SelfMove ==
    /\ Named # 0
    /\ last.call.group = last.items0[Named].group
    /\ last.call.time = last.items0[Named].start_time

\* C3: moveItemToGroup(itemId, newGroupId, newStart) is applied exactly when
\* newGroupId is not the placeholder, a task with id itemId exists and no
\* task with another id in lane newGroupId overlaps the new interval; and a
\* move of a task to its own lane and start_time is always accepted and
\* leaves the task collection equal to what it was.
C3_MoveAppliedExactlyWhen ==
    Called("moveItemToGroup") =>
        /\ Applied <=> ~MoveRejectCase
        /\ SelfMove => (Applied /\ items = last.items0)

\* C4: a rejected moveItemToGroup (placeholder target, unknown id, or a
\* collision in the target lane) leaves tasks and lanes as they were and
\* schedules no persist.
C4_RejectedMoveChangesNothing ==
    (Called("moveItemToGroup") /\ MoveRejectCase) =>
        (~last.ok /\ NothingChanged)

\* C4 witness: a move of an existing task to a real lane met a collision
C4_Witness ==
    /\ Called("moveItemToGroup")
    /\ last.call.group # NEW_LANE_ID
    /\ Named # 0
    /\ Blocked(last.call.group, last.call.time, last.call.time + NamedDuration)
    /\ NothingChanged

\* C5: after an accepted moveItemToGroup(itemId, L, newStart) the moved task
\* has group L, start_time newStart and end_time newStart plus its old
\* duration, so its duration is what it was.
C5_AcceptedMoveKeepsDuration ==
    (Called("moveItemToGroup") /\ last.ok) =>
        /\ Named # 0
        /\ items[Named].id = last.call.id
        /\ items[Named].group = last.call.group
        /\ items[Named].start_time = last.call.time
        /\ items[Named].end_time = last.call.time + NamedDuration
        /\ items[Named].end_time - items[Named].start_time = NamedDuration

\* C5 witness: an accepted move changed the task's lane and its start
C5_Witness ==
    /\ Called("moveItemToGroup")
    /\ last.ok
    /\ Named # 0
    /\ items[Named].group # last.items0[Named].group
    /\ items[Named].start_time # last.items0[Named].start_time

\* the interval a resizeItem call proposes for the named task
ProposedStart ==
    IF last.call.edge = "left" THEN last.call.time
    ELSE last.items0[Named].start_time

ProposedEnd ==
    IF last.call.edge = "left" THEN last.items0[Named].end_time
    ELSE last.call.time

\* the cases in which a resizeItem call is to be rejected
ResizeRejectCase ==
    \/ Named = 0
    \/ Blocked(last.items0[Named].group, ProposedStart, ProposedEnd)

\* C6: resizeItem is rejected when no task has the id or when the proposed
\* interval collides with a task of another id in the task's lane; a
\* rejected resize leaves every task and the lanes unchanged and schedules
\* no persist.
C6_RejectedResizeChangesNothing ==
    Called("resizeItem") =>
        /\ ResizeRejectCase => ~last.ok
        /\ ~last.ok => NothingChanged

\* C6 witness: a resize of an existing task met a collision
C6_Witness ==
    /\ Called("resizeItem")
    /\ Named # 0
    /\ Blocked(last.items0[Named].group, ProposedStart, ProposedEnd)
    /\ ~last.ok
    /\ NothingChanged

\* C7: an accepted resizeItem(itemId, newTime, edge) moves only the named
\* boundary: "left" sets start_time to newTime and keeps end_time, "right"
\* sets end_time to newTime and keeps start_time; the group is kept.
C7_AcceptedResizeMovesOneBoundary ==
    (Called("resizeItem") /\ last.ok) =>
        /\ Named # 0
        /\ items[Named].group = last.items0[Named].group
        /\ last.call.edge = "left" =>
             /\ items[Named].start_time = last.call.time
             /\ items[Named].end_time = last.items0[Named].end_time
        /\ last.call.edge = "right" =>
             /\ items[Named].end_time = last.call.time
             /\ items[Named].start_time = last.items0[Named].start_time

\* C7 witness: an accepted resize pulled the right edge to another time
C7_Witness ==
    /\ Called("resizeItem")
    /\ last.ok
    /\ last.call.edge = "right"
    /\ Named # 0
    /\ items[Named].end_time # last.items0[Named].end_time
    /\ items[Named].start_time < items[Named].end_time

NoTaskInPlaceholder(its) ==
    \A i \in 1..Len(its) : its[i].group # NEW_LANE_ID

\* C8: from a state where no task has the placeholder as its group, no
\* moveItemToGroup, resizeItem, createGroup, updateGroup, handleItemMove
\* or handleItemResize call puts a task into the placeholder.
C8_PlaceholderHoldsNoTask ==
    (/\ last.call.op \in {"moveItemToGroup", "resizeItem", "createGroup",
                          "updateGroup", "handleItemMove", "handleItemResize"}
     /\ NoTaskInPlaceholder(last.items0))
    => NoTaskInPlaceholder(items)

\* C8 witness: a drag onto the placeholder moved the task into a new lane
C8_Witness ==
    /\ Called("handleItemMove")
    /\ last.groups0[last.call.index + 1].id = NEW_LANE_ID
    /\ last.ok
    /\ NoTaskInPlaceholder(last.items0)
    /\ items[Named].group = last.ret

PlaceholderLastOnce(gs) ==
    /\ Len(gs) > 0
    /\ gs[Len(gs)].id = NEW_LANE_ID
    /\ \A i \in 1..(Len(gs) - 1) : gs[i].id # NEW_LANE_ID

\* C9: from a lane sequence that holds the placeholder exactly once, as its
\* last element, every createGroup, moveItemToGroup, resizeItem and
\* updateGroup call (and the two gestures built on them) leaves a lane
\* sequence that holds the placeholder exactly once, as its last element.
C9_PlaceholderStaysLast ==
    (/\ last.call.op \in {"createGroup", "moveItemToGroup", "resizeItem",
                          "updateGroup", "handleItemMove", "handleItemResize"}
     /\ PlaceholderLastOnce(last.groups0))
    => PlaceholderLastOnce(groups)

\* C9 witness: createGroup put its lane right before the placeholder
C9_Witness ==
    /\ Called("createGroup")
    /\ PlaceholderLastOnce(last.groups0)
    /\ Len(groups) = Len(last.groups0) + 1
    /\ groups[Len(groups) - 1].id = last.ret
    /\ PlaceholderLastOnce(groups)

LaneIdsDistinct(gs) ==
    \A i \in 1..Len(gs), j \in 1..Len(gs) : i # j => gs[i].id # gs[j].id

\* C10: every createGroup call returns an id that no lane of the store had
\* before the call and that is the id of the lane it appended, whatever the
\* clock reads, so lane ids stay pairwise distinct.
C10_CreateGroupIdIsFresh ==
    Called("createGroup") =>
        /\ \A i \in 1..Len(last.groups0) : last.groups0[i].id # last.ret
        /\ \E i \in 1..Len(groups) : groups[i].id = last.ret
        /\ LaneIdsDistinct(last.groups0) => LaneIdsDistinct(groups)

\* position in groups0 that the gesture's 0-based index names
DropIndex == last.call.index + 1

\* the gesture's index named the placeholder lane
DroppedOnPlaceholder ==
    /\ DropIndex \in 1..Len(last.groups0)
    /\ last.groups0[DropIndex].id = NEW_LANE_ID

\* C11: handleItemMove(taskId, t, i) with i the placeholder's index and an
\* existing taskId creates exactly one lane and moves the task into it: the
\* move succeeds, the task's group is the id createGroup returned, its
\* start_time is t, its duration is what it was, and the lane sequence is
\* one lane longer.
C11_DropOnPlaceholderMovesIntoNewLane ==
    (Called("handleItemMove") /\ DroppedOnPlaceholder /\ Named # 0) =>
        /\ last.ok
        /\ Len(groups) = Len(last.groups0) + 1
        /\ items[Named].group = last.ret
        /\ items[Named].start_time = last.call.time
        /\ items[Named].end_time - items[Named].start_time = NamedDuration

\* the gesture's index lies outside the lane sequence
DropOutOfRange == DropIndex > Len(last.groups0)

\* C12: a drag-end gesture whose lane index is outside the lane sequence is
\* ignored: tasks and lanes are unchanged, no lane is created, no persist is
\* scheduled, and no error is raised on the path from onItemMove through
\* handleItemMove.
C12_OutOfRangeDropIsIgnored ==
    (/\ Called("onItemMove") \/ Called("handleItemMove")
     /\ DropOutOfRange)
    => (NothingChanged /\ ~last.threw)

\* the call changed tasks or lanes or scheduled a persist
Mutated == ~NothingChanged

\* C13: moveItemToGroup and resizeItem return a boolean to the caller: true
\* exactly when the mutation was applied, false exactly when it was
\* rejected; a rejection never throws.
C13_MoveResizeReturnBoolean ==
    (Called("moveItemToGroup") \/ Called("resizeItem")) =>
        /\ last.ret \in {"true", "false"}
        /\ last.ret = "true" <=> last.ok
        /\ ~last.threw

\* C14: an updateItem call that changes a task triggers a persist: when the
\* call returns, a deferred persist is scheduled that will write the
\* updated tasks without a further mutation.
C14_UpdateItemTriggersPersist ==
    (Called("updateItem") /\ items # last.items0) => pending > 0

\* the task collection a key's text denotes
ParsedItems(stored) ==
    [i \in 1..Len(stored.text) |-> parseItem(stored.text[i])]

\* the lane collection a key's text denotes
ParsedGroups(stored) ==
    [i \in 1..Len(stored.text) |-> parseGroup(stored.text[i])]

\* storage holds exactly the tasks and lanes that are in memory
StorageMatchesMemory ==
    /\ storedItems.present
    /\ ParsedItems(storedItems) = items
    /\ storedGroups.present
    /\ ParsedGroups(storedGroups) = groups

\* C15: each setItems call and each accepted moveItemToGroup, resizeItem,
\* createGroup and updateGroup schedules one deferred persist (a rejected
\* one schedules none), and a persist whose writes succeed leaves in
\* storage the tasks and lanes that are in memory when it runs; so once
\* the last scheduled persist has run with successful writes, storage
\* equals memory.
C15_PersistWritesCurrentState ==
    /\ last.call.op \in {"setItems", "moveItemToGroup", "resizeItem",
                          "createGroup", "updateGroup"}
         => pending = last.pending0 + (IF last.ok THEN 1 ELSE 0)
    /\ (Called("saveToStorage") /\ last.ok)
         => (StorageMatchesMemory /\ pending = last.pending0 - 1)

\* C15 witness: two mutations were made, the second after the first was
\* scheduled to be persisted, and the last scheduled persist has written
\* the tasks and lanes of the second
C15_Witness ==
    /\ Called("saveToStorage")
    /\ last.ok
    /\ pending = 0
    /\ ops = 2
    /\ items # defaultItems
    /\ Len(groups) > Len(defaultGroups)
    /\ StorageMatchesMemory

\* C16: a persist with a failed write changes nothing in memory (the
\* mutation that scheduled it is not rolled back), lets no exception leave
\* saveToStorage and is not retried: the number of scheduled persists goes
\* down by one as after a successful persist; and while the session goes
\* on a mutation can still be made.
C16_FailedPersistIsCaught ==
    (Called("saveToStorage") /\ ~last.ok) =>
        /\ items = last.items0
        /\ groups = last.groups0
        /\ ~last.threw
        /\ pending = last.pending0 - 1
        /\ SessionOpen => ENABLED (/\ createGroup("Nuevo carril", Epoch0)
                                    /\ pending' = pending + 1)

\* C16 witness: after a mutation of the default data the only scheduled
\* persist failed to write the tasks, the mutation is still in memory and
\* nothing is scheduled
C16_Witness ==
    /\ Called("saveToStorage")
    /\ ~last.ok
    /\ ~storedItems.present
    /\ items # defaultItems
    /\ Len(items) = Len(defaultItems)
    /\ pending = 0

\* C17: loadFromStorage replaces the tasks in memory by the stored tasks
\* exactly when the stored task collection is non-empty, and the lanes in
\* memory by the stored lanes exactly when stored lanes are present (an
\* empty stored lane list included); otherwise the collection in memory is
\* left as it was.
C17_LoadReplacesWhenStored ==
    Called("loadFromStorage") =>
        /\ items = (IF storedItems.present /\ Len(storedItems.text) > 0
                    THEN ParsedItems(storedItems) ELSE last.items0)
        /\ groups = (IF storedGroups.present
                     THEN ParsedGroups(storedGroups) ELSE last.groups0)

\* C17 witness: a stored empty lane list replaced the lanes in memory while
\* a stored empty task list left the tasks in memory
C17_Witness ==
    /\ Called("loadFromStorage")
    /\ storedGroups.present
    /\ Len(storedGroups.text) = 0
    /\ Len(last.groups0) > 0
    /\ groups = << >>
    /\ storedItems.present
    /\ Len(storedItems.text) = 0
    /\ Len(items) > 0
    /\ items = last.items0

\* C18: when loadFromStorage runs while a persist scheduled by an accepted
\* mutation has not yet executed, the tasks and lanes in memory are
\* afterwards what they were, so the mutation is still in memory and is
\* what the pending persist writes.
C18_LoadKeepsUnpersistedMutation ==
    (Called("loadFromStorage") /\ last.pending0 > 0) =>
        (items = last.items0 /\ groups = last.groups0)

\* C19: loadFromStorage is idempotent: after a loadFromStorage call a
\* second one on the same storage would leave tasks and lanes as the
\* first left them.
C19_LoadIsIdempotent ==
    Called("loadFromStorage") =>
        /\ LoadedItems(items, storedItems) = items
        /\ LoadedGroups(groups, storedGroups) = groups

\* C19 witness: the first loadFromStorage changed the tasks in memory
C19_Witness ==
    /\ Called("loadFromStorage")
    /\ items # last.items0
    /\ items = ParsedItems(storedItems)

\* storage holds exactly the tasks its and the lanes gs
StorageMatchesMemoryAt(its, gs) ==
    /\ storedItems.present
    /\ ParsedItems(storedItems) = its
    /\ storedGroups.present
    /\ ParsedGroups(storedGroups) = gs

\* C20: saveItems(T) followed by loadItems() gives T, and a session that
\* starts on storage in which a persist wrote tasks T and lanes G has T as
\* its tasks and G as its lanes, also when T is empty.
C20_StoredDataStartsNextSession ==
    /\ loadItems(WrittenItems(items)) = items
    /\ (/\ Called("create")
        /\ ops > 0
        /\ StorageMatchesMemoryAt(last.items0, last.groups0)) =>
            /\ items = ParsedItems(storedItems)
            /\ groups = ParsedGroups(storedGroups)

\* the key holds no serialized collection: it is absent or its text is corrupt
NotACollection(stored) == ~stored.present \/ stored.form # "array"

\* C21: missing or corrupt stored data never crashes startup: for a key that
\* is absent or holds no valid serialized collection loadItems returns the
\* empty collection and loadGroups null, neither throws, and store creation
\* and loadFromStorage complete with the default (creation) or the current
\* (loadFromStorage) data in place.
C21_CorruptStorageNeverCrashes ==
    /\ NotACollection(storedItems) =>
            (~loadItemsIsNull(storedItems) /\ loadItems(storedItems) = << >>)
    /\ NotACollection(storedGroups) => loadGroups(storedGroups).isNull
    /\ (Called("create") \/ Called("loadFromStorage")) =>
            /\ ~last.threw
            /\ NotACollection(storedItems) =>
                    items = (IF Called("create") THEN defaultItems
                             ELSE last.items0)
            /\ NotACollection(storedGroups) =>
                    groups = (IF Called("create") THEN defaultGroups
                              ELSE last.groups0)

\* task i of the collection has the candidate's lane and another id and
\* the two intervals overlap: newStart < end_time and start_time < newEnd
CollidesWith(i) ==
    /\ items[i].group = last.call.group
    /\ items[i].id # last.call.id
    /\ last.call.time < items[i].end_time
    /\ items[i].start_time < last.call.time2

\* task i only touches the candidate: one interval ends where the other
\* starts
Touches(i) ==
    \/ items[i].start_time = last.call.time2
    \/ items[i].end_time = last.call.time

\* C22: the store's hasCollision and the utility hasCollision both return
\* true exactly when some task of the same group and another id has
\* newStart < end_time and start_time < newEnd; they agree on every input,
\* and a task that only touches the candidate is no collision.
C22_CollisionChecksAgree ==
    Called("hasCollision") =>
        /\ last.ok <=> (\E i \in 1..Len(items) : CollidesWith(i))
        /\ last.ret = BoolText(\E i \in 1..Len(items) : CollidesWith(i))
        /\ (\A i \in 1..Len(items) : Touches(i)) =>
                (~last.ok /\ last.ret = "false")

\* C22 witness: a task of the candidate's lane and another id starts where
\* the candidate ends, both intervals are non-empty, and neither check
\* reports a collision
C22_Witness ==
    /\ Called("hasCollision")
    /\ Len(items) = 1
    /\ items[1].group = last.call.group
    /\ items[1].id # last.call.id
    /\ last.call.time < last.call.time2
    /\ items[1].start_time = last.call.time2
    /\ items[1].start_time < items[1].end_time
    /\ ~last.ok
    /\ last.ret = "false"

\* the multiples of the granularity around the timestamps
SnapMultiples(minutes) ==
    {k * minutes * 60 * 1000 : k \in (0 - MaxSnap)..MaxSnap}

Abs(n) == IF n < 0 THEN 0 - n ELSE n

\* the multiple nearest to timestamp, of two equally near ones the one
\* farther from zero
NearestAwayFromZero(timestamp, minutes) ==
    CHOOSE m \in SnapMultiples(minutes) :
        \A n \in SnapMultiples(minutes) :
            \/ Abs(timestamp - m) < Abs(timestamp - n)
            \/ Abs(timestamp - m) = Abs(timestamp - n) /\ Abs(m) >= Abs(n)

\* C23: snapToMinutes(timestamp, minutes) returns the multiple of
\* minutes * 60000 nearest to timestamp and, when timestamp is halfway
\* between two multiples, the one farther from zero, for positive, zero and
\* negative timestamps.
C23_SnapRoundsHalfAwayFromZero ==
    Called("snapToMinutes") =>
        last.ret = ToString(NearestAwayFromZero(last.call.time,
                                                last.call.index))

\* C24: task ids are pairwise distinct in every state reached from the
\* default data through task creation (addTask, then addItem), moveItemToGroup
\* and resizeItem, whatever the clock reads at the additions.
C24_TaskIdsStayUnique ==
    /\ Called("create") => DistinctIds(items)
    /\ (/\ Called("addItem") \/ Called("moveItemToGroup") \/ Called("resizeItem")
        /\ DistinctIds(last.items0))
       => DistinctIds(items)

\* every task's group is the id of a lane of gs other than the placeholder
GroupsReferToLanes(its, gs) ==
    \A i \in 1..Len(its) :
        /\ its[i].group # NEW_LANE_ID
        /\ \E j \in 1..Len(gs) : gs[j].id = its[i].group

\* C25: moveItemToGroup, resizeItem, createGroup, updateGroup and addItem,
\* called with any arguments in a state where every task's group is the id of
\* a lane of the store other than the placeholder, lead to such a state.
C25_TaskGroupIsALane ==
    /\ Called("create") => GroupsReferToLanes(items, groups)
    /\ (/\ \/ Called("moveItemToGroup") \/ Called("resizeItem")
           \/ Called("createGroup") \/ Called("updateGroup")
           \/ Called("addItem")
        /\ GroupsReferToLanes(last.items0, last.groups0))
       => GroupsReferToLanes(items, groups)

\* the submitted form meets the conditions on a new task: a title, both
\* fields filled in, and the end after the start
FormIsValid ==
    /\ last.call.title # ""
    /\ last.call.time # EmptyField
    /\ last.call.time2 # EmptyField
    /\ last.call.time < last.call.time2

\* C26: a task that addTask produces and addItem appends has a non-empty
\* title, end_time > start_time and the group of an existing lane other than
\* the placeholder; a form that violates one of these conditions produces
\* no task and leaves the store as it was.
C26_AddTaskValidates ==
    Called("addItem") =>
        IF FormIsValid
        THEN /\ last.ok
             /\ Len(items) = Len(last.items0) + 1
             /\ SubSeq(items, 1, Len(last.items0)) = last.items0
             /\ items[Len(items)].title = last.call.title
             /\ items[Len(items)].start_time = last.call.time
             /\ items[Len(items)].end_time = last.call.time2
             /\ GroupsReferToLanes(<<items[Len(items)]>>, groups)
        ELSE ~last.ok /\ NothingChanged

\* every task's interval is non-empty: end_time > start_time
Ordered(its) == \A i \in 1..Len(its) : its[i].start_time < its[i].end_time

\* C27: resizeItem does not guard the order of the boundaries: a resize of
\* an existing task that proposes start_time >= end_time is applied whenever
\* no other task of the lane overlaps the proposed interval, and the task
\* then has that interval.
C27_InvertedResizeIsAccepted ==
    (/\ Called("resizeItem")
     /\ Named # 0
     /\ ProposedStart >= ProposedEnd
     /\ ~Blocked(last.items0[Named].group, ProposedStart, ProposedEnd))
    => /\ Applied
       /\ items[Named].start_time = ProposedStart
       /\ items[Named].end_time = ProposedEnd
       /\ ~Ordered(items)

\* C27 witness: every task had end_time > start_time, and one resizeItem
\* call left a task with end_time <= start_time
C27_Witness ==
    /\ Called("resizeItem")
    /\ Ordered(last.items0)
    /\ last.ok
    /\ \E i \in 1..Len(items) : items[i].end_time <= items[i].start_time

\* C28: createGroup and updateGroup remove and reorder no lane and leave the
\* tasks alone: updateGroup changes only the title of the lane with the
\* given id, and nothing at all, with no persist scheduled, when the id is
\* the placeholder's; createGroup keeps every lane with its id, title and
\* position and puts the new lane immediately before the placeholder.
C28_LanesAreKeptInOrder ==
    /\ Called("updateGroup") =>
           /\ items = last.items0
           /\ Len(groups) = Len(last.groups0)
           /\ \A i \in 1..Len(groups) :
                  /\ groups[i].id = last.groups0[i].id
                  /\ groups[i].title =
                        (IF groups[i].id = last.call.group
                         THEN last.call.title ELSE last.groups0[i].title)
                     \/ /\ last.call.group = NEW_LANE_ID
                        /\ groups[i].title = last.groups0[i].title
           /\ last.call.group = NEW_LANE_ID => NothingChanged
    /\ (Called("createGroup") /\ PlaceholderLastOnce(last.groups0)) =>
           /\ items = last.items0
           /\ Len(groups) = Len(last.groups0) + 1
           /\ \A i \in 1..(Len(last.groups0) - 1) : groups[i] = last.groups0[i]
           /\ groups[Len(last.groups0)] =
                  [id |-> last.ret, title |-> last.call.title]
           /\ groups[Len(groups)] = last.groups0[Len(last.groups0)]

\* C28 witness: a lane was renamed and then createGroup put a lane in front
\* of the placeholder, behind the renamed lane
C28_Witness ==
    /\ Called("createGroup")
    /\ Len(groups) = Len(last.groups0) + 1
    /\ groups[Len(groups) - 1].id = last.ret
    /\ groups[Len(groups)].id = NEW_LANE_ID
    /\ \E i \in 1..Len(last.groups0) :
           /\ last.groups0[i].title = "Renombrado"
           /\ groups[i] = last.groups0[i]

\* C29: an accepted moveItemToGroup or resizeItem changes only the group,
\* start_time and end_time of the task it names (a resize only the one
\* boundary): every other task, that task's id, title and color, the number
\* and order of the tasks, and the lanes are as before the call.
C29_AcceptedCallChangesOneTask ==
    (/\ Called("moveItemToGroup") \/ Called("resizeItem")
     /\ last.ok)
    => /\ groups = last.groups0
       /\ Len(items) = Len(last.items0)
       /\ \A i \in 1..Len(items) : i # Named => items[i] = last.items0[i]
       /\ items[Named].id = last.items0[Named].id
       /\ items[Named].title = last.items0[Named].title
       /\ items[Named].color = last.items0[Named].color
       /\ Called("resizeItem") =>
              /\ items[Named].group = last.items0[Named].group
              /\ \/ items[Named].start_time = last.items0[Named].start_time
                 \/ items[Named].end_time = last.items0[Named].end_time

\* the two keys hold collections, and every task of the one has the id of
\* a lane of the other as its group
StoredGroupsReferToLanes(si, sg) ==
    /\ si.present /\ si.form = "array"
    /\ sg.present /\ sg.form = "array"
    /\ \A i \in 1..Len(ParsedItems(si)) :
           \E j \in 1..Len(ParsedGroups(sg)) :
               ParsedGroups(sg)[j].id = ParsedItems(si)[i].group

\* C30: what storage holds after a persist is one snapshot of the store,
\* also when one of the two writes failed: if every stored task's group was
\* the id of a stored lane before the persist and every task's group is the
\* id of a lane in memory, every stored task's group is the id of a stored
\* lane after the persist.
C30_StoredCopyIsOneSnapshot ==
    (/\ Called("saveToStorage")
     /\ StoredGroupsReferToLanes(last.storedItems0, last.storedGroups0)
     /\ \A i \in 1..Len(items) :
            \E j \in 1..Len(groups) : groups[j].id = items[i].group)
    => StoredGroupsReferToLanes(storedItems, storedGroups)

====
